---- MODULE Spec2Model ----
(***************************************************************************)
(* Sublime Custom Formatter ("Custom Formatter/main.py"): one format-on-save *)
(* cycle.  The save event runs RunCustomFormatterCommand.run, which writes   *)
(* the buffer to a temporary file, runs the configured command on it, reads  *)
(* the file back and replaces the buffer, or, when the command exits with a  *)
(* positive code, parses a position out of its standard error and moves the  *)
(* cursor there.                                                             *)
(*                                                                           *)
(* Texts, file contents, command tokens and diagnostics are sequences of     *)
(* symbols.  "LF" and "CR" are the line feed and carriage return characters, *)
(* "xFF" is a byte that is not valid UTF-8.  In a diagnostic, "line " and    *)
(* "column " are the five and seven bytes of those words (in any case, the   *)
(* patterns are compiled with re.I) followed by one space.                   *)
(***************************************************************************)
EXTENDS Integers, Sequences, FiniteSets, TLC

VARIABLES
    pc,            \* position of the save handler
    configured,    \* the view's settings hold a "formatter" key
    linesep,       \* os.linesep of the platform the editor runs on
    formatter,     \* view.settings().get("formatter"); <<>> when absent or empty
    buffer,        \* the view's text
    sel,           \* the view's cursor as (row, column), 0-based
    text,          \* local `text` of RunCustomFormatterCommand.run
    suffix,        \* local `suffix` of format_text
    filepath,      \* local `filepath` of format_text; None while unbound
    argv,          \* the argument vector handed to Popen
    tempfile,      \* the file at the temporary path: [exists, data]
    childEffect,   \* what the child process did to the temporary file
    returncode,    \* process.returncode
    stdout,        \* bytes the child wrote to standard output
    stderr,        \* bytes the child wrote to standard error
    result,        \* local `result` of format_text
    exc,           \* the exception in flight: <<type, args[0]>>
    position,      \* local `position` of point_out_issue_to_user (line 116)
    gotoRequests,  \* the goto_position requests issued, in order
    replaced,      \* number of view.replace calls
    events         \* what format_text did to the file and the child, in order

vars == <<pc, configured, linesep, formatter, buffer, sel, text, suffix, filepath, argv,
          tempfile, childEffect, returncode, stdout, stderr, result, exc,
          position, gotoRequests, replaced, events>>

----------------------------------------------------------------------------
(* Bounds of the model *)

MaxTextLen == 2
MaxFileLen == 2
MaxTemplateLen == 3
MaxDiagLen == 6

SeqsUpTo(S, n) == UNION {[1..k -> S] : k \in 0..n}

Range(s) == {s[i] : i \in 1..Len(s)}

\* Python's None, and the empty string "" / empty list []
None == <<>>

----------------------------------------------------------------------------
(* FILENAME_PATTERN = re.compile(r"\$1(\.\w+)$", flags=re.ASCII), used with  *)
(* .match: anchored at the start of the token; `$` matches at the end of the *)
(* token or just before a line feed that ends it.                            *)

\* \w under re.ASCII, restricted to the characters the tokens below use
WordChars == {"f", "m", "t", "j", "s", "p", "y", "1"}

RECURSIVE WordRunEnd(_, _)
\* index of the last character of the longest \w run that starts at i
WordRunEnd(item, i) ==
    IF i <= Len(item) /\ item[i] \in WordChars
    THEN WordRunEnd(item, i + 1)
    ELSE i - 1

\* group(1) of FILENAME_PATTERN.match(item), or None
FILENAME_PATTERN_match(item) ==
    IF Len(item) >= 4 /\ item[1] = "$" /\ item[2] = "1" /\ item[3] = "."
    THEN LET k == WordRunEnd(item, 4)
         IN  IF k >= 4 /\ (k = Len(item)
                            \/ (k = Len(item) - 1 /\ item[Len(item)] = "LF"))
             THEN SubSeq(item, 3, k)
             ELSE None
    ELSE None

RECURSIVE extract_extension_last(_)
extract_extension_last(command) ==
    IF command = <<>> THEN <<>>
    ELSE LET rest == extract_extension_last(Tail(command))
         IN  IF rest # <<>> THEN rest
             ELSE FILENAME_PATTERN_match(Head(command))

RECURSIVE extract_extension(_)
extract_extension(command) ==
    IF command = <<>> THEN <<>>
    ELSE LET match == FILENAME_PATTERN_match(Head(command))
         IN  IF match # None THEN match
             ELSE extract_extension(Tail(command))

\* tempfile.NamedTemporaryFile(suffix=suffix).name: directory, "tmp", random
\* characters, then the suffix
TempPrefix == <<"/", "t", "m", "p", "/", "r">>

TempName(sfx) == TempPrefix \o sfx

BuildCommandLastOnly(command, path) ==
    [i \in 1..Len(command) |->
        IF i = Len(command) /\ FILENAME_PATTERN_match(command[i]) # None
        THEN path ELSE command[i]]

\* lines 99-101: the list comprehension
BuildCommand(command, path) ==
    [i \in 1..Len(command) |->
        IF FILENAME_PATTERN_match(command[i]) # None THEN path ELSE command[i]]

----------------------------------------------------------------------------
(* Text files: NamedTemporaryFile(mode="w+", encoding="utf-8") and           *)
(* open(filepath, encoding="utf-8"), both with newline=None.                 *)

TextChars == {"a", "LF", "CR"}
Bytes == TextChars \cup {"xFF"}

RECURSIVE EncodeText(_, _)
\* file.write(text): every "\n" is written as os.linesep
EncodeText(t, sep) ==
    IF t = <<>> THEN <<>>
    ELSE (IF Head(t) = "LF" THEN sep ELSE <<Head(t)>>) \o EncodeText(Tail(t), sep)

\* the UTF-8 decoder accepts the data
Decodable(data) == \A i \in 1..Len(data) : data[i] # "xFF"

DecodeTextRaw(data) == data

RECURSIVE DecodeText(_)
\* file.read(): universal newlines, "\r\n" and "\r" are read as "\n"
DecodeText(data) ==
    IF data = <<>> THEN <<>>
    ELSE IF Head(data) = "CR"
         THEN IF Len(data) >= 2 /\ data[2] = "LF"
              THEN <<"LF">> \o DecodeText(Tail(Tail(data)))
              ELSE <<"LF">> \o DecodeText(Tail(data))
         ELSE <<Head(data)>> \o DecodeText(Tail(data))

NoFile == [exists |-> FALSE, data |-> <<>>]

CleanupSkipped(path, file) == file

\* lines 108-109: if os.path.isfile(filepath): os.remove(filepath)
Cleanup(path, file) == IF file.exists THEN NoFile ELSE file

----------------------------------------------------------------------------
(* The Error Locator.                                                        *)
(* ERROR_PATTERN_1 = rb"\bline (?P<line>\d+)(?:.*\bcolumn (?P<column>\d+))?" *)
(* ERROR_PATTERN_2 = rb"\b(\d+):(\d+)\b"          (both with flags=re.I)     *)

Digits == {"0", "2"}
DiagSymbols == {"line ", "column ", "0", "2", ":", "LF", "x"}

\* the symbol's first / last byte is a \w byte
StartsWithWord(sym) == sym \in {"line ", "column ", "0", "2", "x"}
EndsWithWord(sym) == sym \in {"0", "2", "x"}

\* \b just before msg[i], where msg[i] starts with a \w byte
BoundaryBefore(msg, i) == i = 1 \/ ~EndsWithWord(msg[i - 1])

\* \b just after msg[k], where msg[k] ends with a \w byte
BoundaryAfter(msg, k) == k = Len(msg) \/ ~StartsWithWord(msg[k + 1])

RECURSIVE DigitRunEnd(_, _)
\* \d+ is greedy: index of the last digit of the run that starts at i
DigitRunEnd(msg, i) ==
    IF i <= Len(msg) /\ msg[i] \in Digits
    THEN DigitRunEnd(msg, i + 1)
    ELSE i - 1

DigitValue(d) == IF d = "0" THEN 0 ELSE 2

RECURSIVE int(_)
\* int(b"20") = 20
int(digits) ==
    IF digits = <<>> THEN 0
    ELSE 10 * int(SubSeq(digits, 1, Len(digits) - 1)) + DigitValue(digits[Len(digits)])

LineEndAnyLine(msg, i) == Len(msg)

RECURSIVE LineEnd(_, _)
\* `.` does not match a line feed: the last index `.*` can reach from i
LineEnd(msg, i) ==
    IF i <= Len(msg) /\ msg[i] # "LF"
    THEN LineEnd(msg, i + 1)
    ELSE i - 1

\* "\bcolumn \d+" matches at j
ColumnAt(msg, j) ==
    /\ j < Len(msg)
    /\ msg[j] = "column "
    /\ BoundaryBefore(msg, j)
    /\ msg[j + 1] \in Digits

RECURSIVE ColumnSearchBack(_, _, _)
\* `.*` is greedy and gives back one byte at a time: the last j in lo..j
\* where the column clause matches, or 0
ColumnSearchBack(msg, j, lo) ==
    IF j < lo THEN 0
    ELSE IF ColumnAt(msg, j) THEN j
    ELSE ColumnSearchBack(msg, j - 1, lo)

\* ERROR_PATTERN_1 matches at i: <<group "line", group "column">>, or None;
\* group "column" is None when the optional clause did not take part
ERROR_PATTERN_1_at(msg, i) ==
    IF /\ i < Len(msg)
       /\ msg[i] = "line "
       /\ BoundaryBefore(msg, i)
       /\ msg[i + 1] \in Digits
    THEN LET k == DigitRunEnd(msg, i + 1)
             j == ColumnSearchBack(msg, LineEnd(msg, k + 1), k + 1)
         IN  <<SubSeq(msg, i + 1, k),
               IF j = 0 THEN None
               ELSE SubSeq(msg, j + 1, DigitRunEnd(msg, j + 1))>>
    ELSE None

RECURSIVE ERROR_PATTERN_1_search(_, _)
\* .search: the leftmost position where the pattern matches
ERROR_PATTERN_1_search(msg, i) ==
    IF i > Len(msg) THEN None
    ELSE IF ERROR_PATTERN_1_at(msg, i) # None THEN ERROR_PATTERN_1_at(msg, i)
    ELSE ERROR_PATTERN_1_search(msg, i + 1)

\* ERROR_PATTERN_2 matches at i: <<group 1, group 2>>, or None
ERROR_PATTERN_2_at(msg, i) ==
    IF msg[i] \in Digits /\ BoundaryBefore(msg, i)
    THEN LET k == DigitRunEnd(msg, i)
             m == DigitRunEnd(msg, k + 2)
         IN  IF /\ k + 2 <= Len(msg)
                /\ msg[k + 1] = ":"
                /\ m >= k + 2
                /\ BoundaryAfter(msg, m)
             THEN <<SubSeq(msg, i, k), SubSeq(msg, k + 2, m)>>
             ELSE None
    ELSE None

RECURSIVE ERROR_PATTERN_2_search(_, _)
ERROR_PATTERN_2_search(msg, i) ==
    IF i > Len(msg) THEN None
    ELSE IF ERROR_PATTERN_2_at(msg, i) # None THEN ERROR_PATTERN_2_at(msg, i)
    ELSE ERROR_PATTERN_2_search(msg, i + 1)

extract_position_pairs_first(error_message) ==
    LET m1 == ERROR_PATTERN_1_search(error_message, 1)
        m2 == ERROR_PATTERN_2_search(error_message, 1)
    IN  IF m2 # None THEN <<int(m2[1]), int(m2[2])>>
        ELSE IF m1 # None
        THEN <<int(m1[1]), IF m1[2] # None THEN int(m1[2]) ELSE 1>>
        ELSE None

\* lines 135-145; (row, column) as parsed, or None
extract_position_with_issue(error_message) ==
    LET m1 == ERROR_PATTERN_1_search(error_message, 1)
        m2 == ERROR_PATTERN_2_search(error_message, 1)
    IN  IF m1 # None
        THEN <<int(m1[1]), IF m1[2] # None THEN int(m1[2]) ELSE 1>>
        ELSE IF m2 # None THEN <<int(m2[1]), int(m2[2])>>
        ELSE None

ToZeroBasedIdentity(p) == p

\* line 119
ToZeroBased(p) == <<p[1] - 1, p[2] - 1>>

----------------------------------------------------------------------------
(* Inputs *)

TokFmt == <<"f", "m", "t">>
TokJs == <<"$", "1", ".", "j", "s">>
TokPy == <<"$", "1", ".", "p", "y">>
TokJsLF == <<"$", "1", ".", "j", "s", "LF">>
TokOptJs == <<"-", "$", "1", ".", "j", "s">>
TokBare == <<"$", "1">>

\* command tokens a "formatter" setting is built from
Tokens == {TokFmt, TokJs, TokPy, TokJsLF, TokOptJs, TokBare}

Templates == SeqsUpTo(Tokens, MaxTemplateLen)

\* the "formatter" settings of the save cycle
Formatters == {<<>>, <<TokFmt>>, <<TokFmt, TokJs>>, <<TokFmt, TokJs, TokPy>>}

Texts == SeqsUpTo(TextChars, MaxTextLen)
FileContents == SeqsUpTo(Bytes, MaxFileLen)

\* Popen.returncode: -9 for a child killed by signal 9
ExitCodes == {-9, 0, 1}

StdoutSamples == {<<>>, <<"a">>}

StderrSamples ==
    { <<"x">>,
      <<"line ", "2">>,
      <<"line ", "2", ":", "column ", "0">>,
      <<"2", ":", "0">>,
      <<"line ", "0", "LF", "column ", "2">> }

Diagnostics == SeqsUpTo(DiagSymbols, MaxDiagLen)

InitialSel == <<0, 0>>

NoException == <<"none", <<>>>>

----------------------------------------------------------------------------
(* The save cycle *)

InitLocals ==
    /\ sel = InitialSel
    /\ text = <<>>
    /\ suffix = <<>>
    /\ filepath = None
    /\ argv = <<>>
    /\ tempfile = NoFile
    /\ childEffect = "none"
    /\ returncode = 0
    /\ stdout = <<>>
    /\ stderr = <<>>
    /\ result = <<>>
    /\ exc = NoException
    /\ position = None
    /\ gotoRequests = <<>>
    /\ replaced = 0
    /\ events = <<>>

\* settings().get("formatter") is None without the key; with it, any list
Init ==
    /\ pc = "idle"
    /\ linesep \in {<<"LF">>, <<"CR", "LF">>}
    /\ \/ configured = FALSE /\ formatter = None
       \/ configured = TRUE /\ formatter \in Formatters
    /\ buffer \in Texts
    /\ InitLocals

NotFormatterNoneOnly(present, command) == ~present

\* line 66: `not formatter` holds for None and for the empty list
NotFormatter(present, command) == ~present \/ Len(command) = 0

\* lines 51-53 and 63-70: on_pre_save runs the command, which returns at once
\* without a formatter and reads the whole buffer otherwise
on_pre_save ==
    /\ pc = "idle"
    /\ IF NotFormatter(configured, formatter)
       THEN pc' = "done" /\ text' = text
       ELSE pc' = "format_text" /\ text' = buffer
    /\ UNCHANGED <<configured, linesep, formatter, buffer, sel, suffix, filepath, argv,
                   tempfile, childEffect, returncode, stdout, stderr, result,
                   exc, position, gotoRequests, replaced, events>>

WrittenNotClosed == <<"create", "write">>

\* lines 127-132: the with block creates the file, writes the text and
\* closes the file before write_tempfile returns
WrittenAndClosed == <<"create", "write", "close">>

\* lines 96-101 and 126-132: suffix, the temporary file, the argument vector.
\* NamedTemporaryFile may fail to create the file, and file.write may fail
\* after it was created (delete=False leaves it behind); in both cases
\* `filepath` of format_text stays unbound.
write_tempfile ==
    /\ pc = "format_text"
    /\ suffix' = extract_extension(formatter)
    /\ \/ /\ filepath' = TempName(suffix')
          /\ tempfile' = [exists |-> TRUE, data |-> EncodeText(text, linesep)]
          /\ argv' = BuildCommand(formatter, filepath')
          /\ exc' = exc
          /\ events' = events \o WrittenAndClosed
          /\ pc' = "Popen"
       \/ /\ exc' = <<"OSError", <<>>>>
          /\ pc' = "finally"
          /\ UNCHANGED <<filepath, tempfile, argv, events>>
       \/ /\ tempfile' = [exists |-> TRUE, data |-> <<>>]
          /\ exc' = <<"OSError", <<>>>>
          /\ events' = events \o <<"create", "close">>
          /\ pc' = "finally"
          /\ UNCHANGED <<filepath, argv>>
    /\ UNCHANGED <<configured, linesep, formatter, buffer, sel, text, childEffect,
                   returncode, stdout, stderr, result, position, gotoRequests,
                   replaced>>

LaunchErrorAsNonZeroExit == <<"ShellNonZeroExitCode", <<>>>>

\* line 173: what Popen raises when the command cannot be started
\* (FileNotFoundError, PermissionError, ...: subclasses of OSError)
LaunchError == <<"OSError", <<>>>>

\* line 173: the child starts, or Popen raises (no such executable, ...)
Popen ==
    /\ pc = "Popen"
    /\ \/ pc' = "running" /\ exc' = exc /\ events' = Append(events, "spawn")
       \/ /\ pc' = "finally"
          /\ exc' = LaunchError
          /\ events' = Append(events, "spawn_failed")
    /\ UNCHANGED <<configured, linesep, formatter, buffer, sel, text, suffix, filepath,
                   argv, tempfile, childEffect, returncode, stdout, stderr,
                   result, position, gotoRequests, replaced>>

\* The external command runs to its exit while the caller is blocked in
\* communicate().  It can reach the temporary file only through a path in
\* its arguments.
child_process ==
    /\ pc = "running"
    /\ \/ childEffect' = "none" /\ tempfile' = tempfile
       \/ /\ filepath \in Range(argv)
          /\ childEffect' = "rewritten"
          /\ \E data \in FileContents :
                tempfile' = [exists |-> TRUE, data |-> data]
       \/ /\ filepath \in Range(argv)
          /\ childEffect' = "removed"
          /\ tempfile' = NoFile
    /\ returncode' \in ExitCodes
    /\ stdout' \in StdoutSamples
    /\ stderr' \in StderrSamples
    /\ pc' = "communicate"
    /\ events' = Append(events, "exit")
    /\ UNCHANGED <<configured, linesep, formatter, buffer, sel, text, suffix, filepath,
                   argv, result, exc, position, gotoRequests, replaced>>

\* line 175
RaisesNonZero(code) == code > 0

\* lines 174-178
communicate ==
    /\ pc = "communicate"
    /\ IF RaisesNonZero(returncode)
       THEN exc' = <<"ShellNonZeroExitCode", stderr>> /\ pc' = "finally"
       ELSE exc' = exc /\ pc' = "open"
    /\ UNCHANGED <<configured, linesep, formatter, buffer, sel, text, suffix, filepath,
                   argv, tempfile, childEffect, returncode, stdout, stderr,
                   result, position, gotoRequests, replaced, events>>

\* lines 104-105
read_back ==
    /\ pc = "open"
    /\ pc' = "finally"
    /\ IF ~tempfile.exists
       THEN /\ exc' = <<"FileNotFoundError", <<>>>>
            /\ UNCHANGED <<result, events>>
       ELSE IF ~Decodable(tempfile.data)
       THEN /\ exc' = <<"UnicodeDecodeError", <<>>>>
            /\ UNCHANGED <<result, events>>
       ELSE /\ exc' = exc
            /\ result' = DecodeText(tempfile.data)
            /\ events' = Append(events, "read")
    /\ UNCHANGED <<configured, linesep, formatter, buffer, sel, text, suffix, filepath,
                   argv, tempfile, childEffect, returncode, stdout, stderr,
                   position, gotoRequests, replaced>>

\* line 108: os.path.isfile(filepath)
isfile(path, file) == file.exists

\* lines 107-111: the finally block, then format_text returns or raises.
\* Reading the unbound `filepath` raises UnboundLocalError in place of the
\* exception in flight.
finally ==
    /\ pc = "finally"
    /\ pc' = "returned"
    /\ IF filepath = None
       THEN /\ exc' = <<"UnboundLocalError", <<>>>>
            /\ UNCHANGED <<tempfile, events>>
       ELSE /\ exc' = exc
            /\ tempfile' = Cleanup(filepath, tempfile)
            /\ events' = IF isfile(filepath, tempfile)
                         THEN Append(events, "remove") ELSE events
    /\ UNCHANGED <<configured, linesep, formatter, buffer, sel, text, suffix, filepath,
                   argv, childEffect, returncode, stdout, stderr, result,
                   position, gotoRequests, replaced>>

\* lines 74-75 and 114-120, with GotoPositionCommand.run (lines 83-89)
point_out_issue_to_user ==
    /\ pc = "returned"
    /\ exc[1] = "ShellNonZeroExitCode"
    /\ position' = extract_position_with_issue(exc[2])
    /\ IF position' = None
       THEN UNCHANGED <<gotoRequests, sel>>
       ELSE /\ gotoRequests' = Append(gotoRequests, ToZeroBased(position'))
            /\ sel' = ToZeroBased(position')
    /\ pc' = "done"
    /\ UNCHANGED <<configured, linesep, formatter, buffer, text, suffix, filepath, argv,
                   tempfile, childEffect, returncode, stdout, stderr, result,
                   exc, replaced, events>>

ElseClauseAlways(e) == TRUE

\* line 76: the else clause of the try statement runs when nothing was raised
ElseClause(e) == e = NoException

\* lines 73 and 76-79, with save_cursor_and_viewport_position (156-159) and
\* set_cursor_and_viewport_position (162-169)
replace ==
    /\ pc = "returned"
    /\ ElseClause(exc)
    /\ text' = result
    /\ buffer' = text'
    /\ replaced' = replaced + 1
    /\ gotoRequests' = Append(gotoRequests, sel)
    /\ pc' = "done"
    /\ UNCHANGED <<configured, linesep, formatter, sel, suffix, filepath, argv, tempfile,
                   childEffect, returncode, stdout, stderr, result, exc,
                   position, events>>

\* lines 72-74: any other exception leaves run and reaches the editor
propagate ==
    /\ pc = "returned"
    /\ exc[1] \notin {"none", "ShellNonZeroExitCode"}
    /\ pc' = "raised"
    /\ UNCHANGED <<configured, linesep, formatter, buffer, sel, text, suffix, filepath,
                   argv, tempfile, childEffect, returncode, stdout, stderr,
                   result, exc, position, gotoRequests, replaced, events>>

Next ==
    \/ on_pre_save
    \/ write_tempfile
    \/ Popen
    \/ child_process
    \/ communicate
    \/ read_back
    \/ finally
    \/ point_out_issue_to_user
    \/ replace
    \/ propagate

Spec == Init /\ [][Next]_vars

\* the steps of a cycle that has started
RunSteps == Next /\ pc # "idle"

\* run calls format_text on the thread that saves, and each call returns or
\* raises once the child has exited (communicate, line 174, waits for it and
\* drains both pipes): a started cycle does not stop halfway.  Whether a
\* save happens at all is left to the user.
SpecFair == Spec /\ WF_vars(RunSteps)

----------------------------------------------------------------------------
(* format_text's first step over every command template *)

InitSubst ==
    /\ pc = "format_text"
    /\ configured = TRUE
    /\ linesep = <<"LF">>
    /\ formatter \in Templates \ {<<>>}
    /\ buffer = <<"a">>
    /\ InitLocals

NextSubst == write_tempfile

SpecSubst == InitSubst /\ [][NextSubst]_vars

----------------------------------------------------------------------------
(* The Error Locator over every diagnostic: format_text has just raised     *)
(* ShellNonZeroExitCode(stderr)                                             *)

InitLocate ==
    /\ pc = "returned"
    /\ configured = TRUE
    /\ events = WrittenAndClosed \o <<"spawn", "exit", "remove">>
    /\ linesep = <<"LF">>
    /\ formatter = <<TokFmt, TokJs>>
    /\ buffer = <<"a">>
    /\ sel = InitialSel
    /\ text = buffer
    /\ suffix = extract_extension(formatter)
    /\ filepath = TempName(suffix)
    /\ argv = BuildCommand(formatter, filepath)
    /\ tempfile = NoFile
    /\ childEffect = "none"
    /\ returncode = 1
    /\ stdout = <<>>
    /\ stderr \in Diagnostics
    /\ result = <<>>
    /\ exc = <<"ShellNonZeroExitCode", stderr>>
    /\ position = None
    /\ gotoRequests = <<>>
    /\ replaced = 0

NextLocate == point_out_issue_to_user

SpecLocate == InitLocate /\ [][NextLocate]_vars

----------------------------------------------------------------------------
(* Properties of the save cycle (Spec) *)

\* format_text has returned or raised
Returned == pc \in {"returned", "done", "raised"}

\* C1: whenever format_text returns or raises after write_tempfile gave it
\* the path of the temporary file (the child exited 0 and the file was read
\* back, the child exited with a positive code and ShellNonZeroExitCode was
\* raised, Popen raised, or reading the file back failed), no file exists at
\* that path.
C1_CleanupInvariant == (Returned /\ filepath # None) => ~tempfile.exists

\* a non-zero exit after the child rewrote the file: the file was there at
\* cleanup time and is gone when format_text raises
C1_Witness ==
    /\ pc = "returned"
    /\ exc[1] = "ShellNonZeroExitCode"
    /\ childEffect = "rewritten"
    /\ filepath # None
    /\ ~tempfile.exists

\* C2: the buffer changes only in the step of run that follows a format_text
\* call which raised nothing, and then it becomes the value that call
\* returned; with any exception in flight the buffer stays as it is.
C2_UntouchedOnFailure ==
    [][buffer' # buffer =>
          (pc = "returned" /\ exc = NoException /\ buffer' = result)]_vars

\* a failed run ended, the child had rewritten the file, the buffer is the
\* text read before the call
C2_Witness ==
    /\ pc \in {"done", "raised"}
    /\ exc # NoException
    /\ childEffect = "rewritten"
    /\ buffer = text
    /\ buffer # <<>>
    /\ replaced = 0

\* C3 (as claimed): once the child has exited with any code other than 0,
\* format_text is failing with ShellNonZeroExitCode carrying exactly the
\* bytes of standard error, and it returns a text only after exit code 0.
C3_NonZeroExitRaises ==
    /\ (pc \in {"open", "finally", "returned"} /\ returncode # 0)
          => exc = <<"ShellNonZeroExitCode", stderr>>
    /\ (pc = "returned" /\ exc = NoException) => returncode = 0

\* file.read() with universal newlines, position by position: a line feed
\* right after a carriage return is dropped, every carriage return is read
\* as a line feed
KeptOnRead(data) ==
    {i \in 1..Len(data) : ~(data[i] = "LF" /\ i > 1 /\ data[i - 1] = "CR")}

NthKept(data, n) ==
    CHOOSE i \in KeptOnRead(data) :
        Cardinality({j \in KeptOnRead(data) : j <= i}) = n

UniversalNewlines(data) ==
    [n \in 1..Cardinality(KeptOnRead(data)) |->
        IF data[NthKept(data, n)] = "CR" THEN "LF" ELSE data[NthKept(data, n)]]

\* the file was read back after exit code 0: `result` is what format_text
\* is about to return, and the file is still as it was read
ReadBackDone == pc = "finally" /\ exc = NoException /\ returncode = 0

\* C4 (as claimed): the text read back after exit code 0 is exactly the
\* contents of the file, and the text passed in when the child did not
\* touch the file.
C4_ExactRoundTrip ==
    ReadBackDone =>
        /\ result = tempfile.data
        /\ childEffect = "none" => result = text

\* C4 (amended): the text read back after exit code 0 is the contents of the
\* file with every "\r\n" and every other "\r" read as "\n", whatever the
\* child wrote to its standard output and standard error; it is exactly the
\* contents when they hold no carriage return, and exactly the text passed in
\* when the child did not touch the file and that text holds no carriage
\* return.
C4_RoundTrip ==
    ReadBackDone =>
        /\ result = UniversalNewlines(tempfile.data)
        /\ "CR" \notin Range(tempfile.data) => result = tempfile.data
        /\ (childEffect = "none" /\ "CR" \notin Range(text)) => result = text

\* the child left a file with a carriage return in it and wrote to both of
\* its output streams
C4_Witness ==
    /\ ReadBackDone
    /\ childEffect = "rewritten"
    /\ "CR" \in Range(tempfile.data)
    /\ result # text
    /\ stdout # <<>>
    /\ stderr # <<"x">>

----------------------------------------------------------------------------
(* Properties of the argument vector (SpecSubst) *)

\* indices of the tokens FILENAME_PATTERN.match accepts
Slots(template) ==
    {i \in 1..Len(template) : FILENAME_PATTERN_match(template[i]) # None}

Min(S) == CHOOSE x \in S : \A y \in S : x <= y
Max(S) == CHOOSE x \in S : \A y \in S : x >= y

EndsWith(s, tail) ==
    /\ Len(s) >= Len(tail)
    /\ SubSeq(s, Len(s) - Len(tail) + 1, Len(s)) = tail

\* write_tempfile returned and the argument vector is built
CommandBuilt == pc = "Popen"

\* C5: for a template with exactly one placeholder token, the argument
\* vector is as long as the template, holds the path of the temporary file
\* at the placeholder's index and the template's token at every other index.
C5_SlotSubstitution ==
    (CommandBuilt /\ Cardinality(Slots(formatter)) = 1) =>
        LET i == Min(Slots(formatter))
        IN  /\ Len(argv) = Len(formatter)
            /\ argv[i] = filepath
            /\ \A j \in 1..Len(formatter) : j # i => argv[j] = formatter[j]

\* the one placeholder is not the last token
C5_Witness ==
    /\ CommandBuilt
    /\ Cardinality(Slots(formatter)) = 1
    /\ Min(Slots(formatter)) < Len(formatter)
    /\ argv[Min(Slots(formatter))] = filepath
    /\ argv # formatter

\* C6 (as claimed): the argument vector differs from the template at no more
\* than one index, and without a matching token it is the template and does
\* not hold the path of the temporary file.
C6_AtMostOneSlot ==
    CommandBuilt =>
        /\ Len(argv) = Len(formatter)
        /\ Cardinality({i \in 1..Len(formatter) : argv[i] # formatter[i]}) <= 1
        /\ Slots(formatter) = {} =>
              (argv = formatter /\ filepath \notin Range(argv))

\* the characters of a token after its first two
AfterDollarOne(tok) == SubSeq(tok, 3, Len(tok))

\* the same without a line feed that ends the token
ExtensionOf(tok) ==
    IF tok[Len(tok)] = "LF" THEN SubSeq(tok, 3, Len(tok) - 1)
    ELSE AfterDollarOne(tok)

----------------------------------------------------------------------------
(* Properties of the Error Locator (SpecLocate) and of failure reporting *)

\* a maximal run of digits msg[i..k]
DigitRun(msg, i, k) ==
    /\ 1 <= i /\ i <= k /\ k <= Len(msg)
    /\ \A h \in i..k : msg[h] \in Digits
    /\ k = Len(msg) \/ msg[k + 1] \notin Digits

\* the number written at i
NumberAt(msg, i) ==
    int(SubSeq(msg, i, CHOOSE k \in i..Len(msg) : DigitRun(msg, i, k)))

NotAfterWord(msg, i) == i = 1 \/ msg[i - 1] \notin {"0", "2", "x"}

\* where "line N" occurs: the word at a word boundary, then a number
LineOccurrences(msg) ==
    {i \in 1..(Len(msg) - 1) :
        msg[i] = "line " /\ NotAfterWord(msg, i) /\ msg[i + 1] \in Digits}

\* where "column M" occurs after index k
ColumnOccurrences(msg, k) ==
    {j \in (k + 1)..(Len(msg) - 1) :
        msg[j] = "column " /\ NotAfterWord(msg, j) /\ msg[j + 1] \in Digits}

\* those with no line feed between index k and the occurrence
ColumnOccurrencesOnLine(msg, k) ==
    {j \in ColumnOccurrences(msg, k) : \A h \in (k + 1)..j : msg[h] # "LF"}

\* a bare pair "N:M" occupies msg[i..m] with the colon at c: two whole
\* numbers, not glued to a letter, digit or underscore on either side
PairAt(msg, i, c, m) ==
    /\ DigitRun(msg, i, c - 1)
    /\ msg[c] = ":"
    /\ DigitRun(msg, c + 1, m)
    /\ NotAfterWord(msg, i)
    /\ m = Len(msg) \/ msg[m + 1] \notin {"line ", "column ", "x"}

PairOccurrences(msg) ==
    {i \in 1..Len(msg) :
        /\ msg[i] \in Digits
        /\ \E c \in (i + 1)..(Len(msg) - 1) :
              /\ msg[c] = ":"
              /\ \E m \in (c + 1)..Len(msg) : PairAt(msg, i, c, m)}

ColonOf(msg, i) ==
    CHOOSE c \in (i + 1)..(Len(msg) - 1) :
        \E m \in (c + 1)..Len(msg) : PairAt(msg, i, c, m)

\* index of the last digit of the number of the leftmost "line N"
LineNumberEnd(msg) ==
    CHOOSE k \in 1..Len(msg) : DigitRun(msg, Min(LineOccurrences(msg)) + 1, k)

\* point_out_issue_to_user has run on the standard error of a failed command
Located == pc = "done" /\ exc = <<"ShellNonZeroExitCode", stderr>>

\* C8: when "line N" occurs anywhere in the diagnostic the result is the one
\* of pattern 1 (row N of the leftmost occurrence, column 1 or one of the
\* "column M" after it), also when a bare pair occurs earlier; otherwise,
\* when a bare pair "N:M" occurs, it is N and M of the leftmost pair; and it
\* is None exactly when neither occurs.
C8_FirstMatchWins ==
    Located =>
        LET L == LineOccurrences(stderr)
            P == PairOccurrences(stderr)
        IN  /\ L # {} =>
                  /\ position # None
                  /\ position[1] = NumberAt(stderr, Min(L) + 1)
                  /\ \/ position[2] = 1
                     \/ \E j \in ColumnOccurrences(stderr, Min(L)) :
                           position[2] = NumberAt(stderr, j + 1)
            /\ (L = {} /\ P # {}) =>
                  position = <<NumberAt(stderr, Min(P)),
                               NumberAt(stderr, ColonOf(stderr, Min(P)) + 1)>>
            /\ position = None <=> (L = {} /\ P = {})

\* a bare pair comes before the "line N", and the two disagree on the row
C8_Witness ==
    /\ Located
    /\ LineOccurrences(stderr) # {}
    /\ PairOccurrences(stderr) # {}
    /\ Min(PairOccurrences(stderr)) < Min(LineOccurrences(stderr))
    /\ NumberAt(stderr, Min(PairOccurrences(stderr))) # position[1]
    /\ position[1] = NumberAt(stderr, Min(LineOccurrences(stderr)) + 1)

\* C9 (as claimed): with a "line N" in the diagnostic the row is N, the
\* column is the M of a "column M" that occurs anywhere later in the text,
\* on the same or on a following line, and 1 only when none occurs later.
C9_ColumnAnywhereLater ==
    (Located /\ LineOccurrences(stderr) # {}) =>
        LET later == ColumnOccurrences(stderr, LineNumberEnd(stderr))
        IN  /\ position[1] = NumberAt(stderr, Min(LineOccurrences(stderr)) + 1)
            /\ later # {} =>
                  \E j \in later : position[2] = NumberAt(stderr, j + 1)
            /\ later = {} => position[2] = 1

\* C9 (amended): with a "line N" in the diagnostic the row is the N of the
\* leftmost one; the column is the M of the last "column M" that follows
\* that number on the same line of the diagnostic, and 1 when no "column M"
\* follows it before the next line feed.
C9_ColumnClause ==
    (Located /\ LineOccurrences(stderr) # {}) =>
        LET onLine == ColumnOccurrencesOnLine(stderr, LineNumberEnd(stderr))
        IN  /\ position[1] = NumberAt(stderr, Min(LineOccurrences(stderr)) + 1)
            /\ onLine # {} => position[2] = NumberAt(stderr, Max(onLine) + 1)
            /\ onLine = {} => position[2] = 1

\* "line N" with a "column M" later on the same line, M not 1
C9_Witness ==
    /\ Located
    /\ LineOccurrences(stderr) # {}
    /\ ColumnOccurrencesOnLine(stderr, LineNumberEnd(stderr)) # {}
    /\ position[2] # 1
    /\ position[1] # position[2]

\* C10: after format_text raised ShellNonZeroExitCode, the run has issued
\* one goto_position request, carrying (row - 1, column - 1), when the
\* diagnostic holds a "line N" or a bare pair "N:M", which is when the Error
\* Locator returns a position (row, column); otherwise it has issued none
\* and the buffer and the selection are as they were.
C10_FailureReporting ==
    Located =>
        LET found == LineOccurrences(stderr) # {} \/ PairOccurrences(stderr) # {}
        IN  /\ found <=> position # None
            /\ found => gotoRequests = << <<position[1] - 1, position[2] - 1>> >>
            /\ ~found =>
                  /\ gotoRequests = <<>>
                  /\ buffer = text
                  /\ sel = InitialSel
                  /\ replaced = 0

\* a position was found and one request was issued
C10_Witness ==
    /\ Located
    /\ position = <<2, 1>>
    /\ gotoRequests = << <<1, 0>> >>
    /\ sel = <<1, 0>>
    /\ buffer = text

----------------------------------------------------------------------------
(* Launch failure and the missing formatter (Spec) *)

\* Popen raised: the command could not be started
LaunchFailed == "spawn_failed" \in Range(events)

\* C11: once Popen has raised, format_text is failing with an error that is
\* not ShellNonZeroExitCode and run never ends normally; the Error Locator
\* has parsed nothing, no goto_position request was issued, the buffer is
\* the text read before the call, and when format_text has raised no file
\* exists at the temporary path.
C11_LaunchFailure ==
    LaunchFailed =>
        /\ exc # NoException
        /\ exc[1] # "ShellNonZeroExitCode"
        /\ pc \in {"finally", "returned", "raised"}
        /\ position = None
        /\ gotoRequests = <<>>
        /\ replaced = 0
        /\ buffer = text
        /\ Returned => ~tempfile.exists

\* the launch failed after the file was written, and the error has left run
C11_Witness ==
    /\ pc = "raised"
    /\ LaunchFailed
    /\ "write" \in Range(events)
    /\ "remove" \in Range(events)
    /\ exc = LaunchError
    /\ ~tempfile.exists
    /\ buffer # <<>>

\* the "formatter" setting is absent or an empty list
NoCommandTemplate == ~configured \/ formatter = <<>>

\* C12: without a "formatter" setting, or with an empty one, the run goes
\* from the save event straight to its normal end: no temporary file is
\* created, no child process is started, no goto_position request is
\* issued, no error is raised, and no step changes the buffer or the
\* selection.
C12_NoFormatterNoOp ==
    /\ [](NoCommandTemplate =>
            /\ pc \in {"idle", "done"}
            /\ events = <<>>
            /\ filepath = None
            /\ ~tempfile.exists
            /\ gotoRequests = <<>>
            /\ replaced = 0
            /\ exc = NoException)
    /\ [][NoCommandTemplate => (buffer' = buffer /\ sel' = sel)]_vars

\* the run has ended with an empty list as the setting
C12_Witness ==
    /\ pc = "done"
    /\ configured
    /\ formatter = <<>>
    /\ buffer # <<>>
    /\ events = <<>>

----------------------------------------------------------------------------
(* The order of one cycle's steps (Spec) *)

Count(e) == Cardinality({i \in 1..Len(events) : events[i] = e})

\* the place of step e in the cycle, 0 when it has not happened
Pos(e) == IF e \in Range(events)
          THEN CHOOSE i \in 1..Len(events) : events[i] = e
          ELSE 0

Happened(e) == Pos(e) > 0

Before(a, b) == Happened(a) /\ Pos(a) < Pos(b)

CycleSteps ==
    {"create", "write", "close", "spawn", "spawn_failed", "exit", "read",
     "remove"}

FullCycle == WrittenAndClosed \o <<"spawn", "exit", "read", "remove">>

\* C13: every step of a cycle happens at most once; the child is started only
\* after the file was created, written and closed; it exits after it was
\* started; the file is read back only after the child exited and deleted only
\* after the child exited and after the read; while the child runs the file
\* holds the whole encoded text and has been neither read nor deleted by the
\* plugin.
C13_Ordering ==
    /\ \A e \in CycleSteps : Count(e) <= 1
    /\ Happened("spawn") =>
          /\ Before("create", "write")
          /\ Before("write", "close")
          /\ Before("close", "spawn")
    /\ Happened("exit") => Before("spawn", "exit")
    /\ Happened("read") => Before("exit", "read")
    /\ Happened("remove") =>
          /\ Happened("spawn") => Before("exit", "remove")
          /\ Happened("read") => Before("read", "remove")
    /\ pc = "running" =>
          /\ events = WrittenAndClosed \o <<"spawn">>
          /\ tempfile = [exists |-> TRUE, data |-> EncodeText(text, linesep)]

C13_Witness ==
    /\ pc = "done"
    /\ events = FullCycle
    /\ replaced = 1
    /\ ~tempfile.exists

----------------------------------------------------------------------------
(* The finally block (Spec) *)

\* C14: the finally block never changes the error in flight: whatever
\* format_text is failing with when cleanup starts (a failure creating or
\* writing the file, a launch failure, a non-zero exit, a failed read) is
\* what it raises to its caller.
C14_CleanupKeepsError ==
    [][pc = "finally" => exc' = exc]_vars

\* C15: in every execution of format_text that created the temporary file,
\* os.remove is called at most once and only on a file that is there; when
\* the command removed or renamed the file itself, no removal is attempted
\* and cleanup raises nothing of its own; a file that is there at cleanup
\* time is removed, so none is left once format_text has returned or raised.
C15_GuardedSingleDeletion ==
    (Returned /\ Happened("create")) =>
        /\ Count("remove") <= 1
        /\ childEffect = "removed" =>
              /\ ~Happened("remove")
              /\ exc[1] # "UnboundLocalError"
        /\ ~tempfile.exists

----------------------------------------------------------------------------
(* Termination (SpecFair) *)

Terminal == pc \in {"done", "raised"}

\* C16: provided the child exits, every cycle that called format_text ends:
\* the buffer was replaced, the cursor was moved or left alone after a failed
\* format, or an error left run; and by then the temporary file is deleted.
C16_TerminatesClean ==
    (pc = "format_text") ~> (Terminal /\ ~tempfile.exists)

\* every started cycle ends, whatever became of the file
C16_Terminates == (pc = "format_text") ~> Terminal

----------------------------------------------------------------------------
(* The cursor target (SpecLocate) *)

\* C17: every goto_position request that point_out_issue_to_user issues for
\* a located diagnostic has a row and a column that are both at least 0,
\* also when the diagnostic reports line 0 or column 0.
C17_ValidCursorTarget ==
    (pc = "done" /\ position # None) =>
        \A i \in 1..Len(gotoRequests) :
            /\ gotoRequests[i][1] >= 0
            /\ gotoRequests[i][2] >= 0

====
